---- MODULE Spec2Model ----
(***************************************************************************)
(* Boid flocking core of submarine_simulation (source/boids/*.c,           *)
(* source/geometry.c) together with the frame loop that drives it.         *)
(*                                                                         *)
(* GLfloat values are held in fixed point: the value v is the integer      *)
(* round(v * ONE).  A product of two such numbers is in units of 1/MICRO.  *)
(* The one non-finite value that the code can produce (0/0, x/0 followed   *)
(* by inf/inf) is the absorbing value NaN.                                 *)
(***************************************************************************)
EXTENDS Integers, Naturals, Sequences, FiniteSets, TLC

\* ------------------------------------------------------------------ bounds
\* The flock is scaled down from the 40 boids / 6 neighbours of boids.h.
BOID_COUNT == 3
BOID_NEIGHBORHOOD_SIZE == 1
\* Number of boids_update ticks explored.
MaxTicks == 2
\* Number of ticks of the long run: enough for a boid to cover the 2.0 from
\* its highest initial position to the ceiling at BOID_SPEED per tick.
RiseTicks == 202

\* ------------------------------------------------------- number representation
ONE   == 10 ^ 3
MICRO == ONE * ONE
NaN   == 0 - 2 ^ 30
\* Largest component magnitude that is squared without range reduction.
RANGE == 10 ^ 4

Slots == 0 .. (BOID_COUNT - 1)
Axes  == 1 .. 3

IsNaN(x) == x = NaN

Abs(x) == IF x < 0 THEN 0 - x ELSE x

Max2(a, b) == IF a < b THEN b ELSE a

\* n / d rounded to the nearest integer (d > 0).
RoundDiv(n, d) == (2 * n + d) \div (2 * d)

\* a * b / ONE rounded, computed without leaving 32 bits for |a * b| large.
FMul(a, b) ==
    IF IsNaN(a) \/ IsNaN(b) THEN NaN
    ELSE (a \div ONE) * b + RoundDiv((a % ONE) * b, ONE)

FAdd(a, b) == IF IsNaN(a) \/ IsNaN(b) THEN NaN ELSE a + b

FSub(a, b) == IF IsNaN(a) \/ IsNaN(b) THEN NaN ELSE a - b

\* a < b as IEEE compares: false as soon as one side is NaN.
FLess(a, b) == ~IsNaN(a) /\ ~IsNaN(b) /\ a < b

FGreater(a, b) == ~IsNaN(a) /\ ~IsNaN(b) /\ a > b

\* fminf: a NaN argument is ignored in favour of the other one.
fminf(a, b) ==
    IF IsNaN(a) THEN b
    ELSE IF IsNaN(b) THEN a
    ELSE IF b < a THEN b ELSE a

RECURSIVE SqrtSearch(_, _, _)
SqrtSearch(n, lo, hi) ==
    IF lo = hi THEN lo
    ELSE LET mid == (lo + hi + 1) \div 2
         IN  IF mid * mid <= n THEN SqrtSearch(n, mid, hi)
                               ELSE SqrtSearch(n, lo, mid - 1)

\* sqrtf of a value in units of 1/MICRO, result in units of 1/ONE,
\* rounded to nearest.
sqrtf(n) ==
    LET r == SqrtSearch(n, 0, 46340)
    IN  IF n - r * r > r THEN r + 1 ELSE r

\* The vector whose component on axis c is f(c).
Vec(f(_)) == <<f(1), f(2), f(3)>>

\* A function with every value computed once.
Tabulate(f) == f @@ <<>>

VecHasNaN(v) == \E c \in Axes : IsNaN(v[c])

NaNVector == <<NaN, NaN, NaN>>

ZeroVector == <<0, 0, 0>>

VecAdd(a, b) == Vec(LAMBDA c : FAdd(a[c], b[c]))

VecSub(a, b) == Vec(LAMBDA c : FSub(a[c], b[c]))

\* v * s where s is a scalar in units of 1/MICRO (the strength constants).
VecScaleMicro(v, s) ==
    Vec(LAMBDA c : IF IsNaN(v[c]) THEN NaN ELSE RoundDiv(v[c] * s, MICRO))

\* geometry.c: length = sqrt(x*x + y*y + z*z); v[i] = v[i] / length.
\* There is no guard: a zero vector gives 0/0 on every component.
geometry_normalize_vector(vector) ==
    IF VecHasNaN(vector) THEN NaNVector
    ELSE LET m      == Max2(Abs(vector[1]), Max2(Abs(vector[2]), Abs(vector[3])))
             k      == (m \div RANGE) + 1
             w      == Vec(LAMBDA c : RoundDiv(vector[c], k))
             length == sqrtf(w[1] * w[1] + w[2] * w[2] + w[3] * w[3])
         IN  IF length = 0 THEN NaNVector
             ELSE Vec(LAMBDA c : RoundDiv(w[c] * ONE, length))

\* ------------------------------------------------------------ constants
ENVIRONMENT_RADIUS_XZ == 10 * ONE
ENVIRONMENT_HEIGHT    == 10 * ONE
ENVIRONMENT_FLOOR_Y   == (0 - 1) * ONE

BOID_SPEED               == ONE \div 100
BOID_TRIGGER_SEPARATE    == ONE
BOID_TRIGGER_ENVIRONMENT == 2 * ONE

SUBMARINE_SPEED == 25

\* Radians in units of 1/ONE.
PI                               == 3142
DEFAULT_CAMERA_THETA             == PI
DEFAULT_CAMERA_PHI               == RoundDiv(PI, 180)
DEFAULT_WINDOW_MOUSE_SENSITIVITY == 5
DEFAULT_WINDOW_WIDTH             == 1280
DEFAULT_WINDOW_HEIGHT            == 720

\* Strength factors, in units of 1/MICRO.
BOID_STRENGTH_ENVIRONMENT == MICRO \div 10
BOID_STRENGTH_SEPARATE    == 5 * ONE
BOID_STRENGTH_ALIGNMENT   == 1250
BOID_STRENGTH_COHESION    == 2 * ONE
\* The 1e-6 added to the squared distances, in units of 1/MICRO.
EPSILON == 1
\* Largest cohesion weight that is multiplied by a coordinate without range
\* reduction.
WEIGHT_RANGE == 2 * RANGE

\* ------------------------------------------------------------ boid_physics.c
\* sqrtf(dx*dx + dy*dy + dz*dz); delta_z is taken as b1 - b2 in the source.
\* Variant: delta_z enters the sum with its sign instead of squared.
DistanceWithSignedZ(b1, b2) ==
    LET delta_x == FSub(b2.position[1], b1.position[1])
        delta_y == FSub(b2.position[2], b1.position[2])
        delta_z == FSub(b1.position[3], b2.position[3])
    IN  IF IsNaN(delta_x) \/ IsNaN(delta_y) \/ IsNaN(delta_z) THEN NaN
        ELSE sqrtf(delta_x * delta_x + delta_y * delta_y + delta_z * ONE)
boid_physics_distance_of_boids(b1, b2) ==
    LET delta_x == FSub(b2.position[1], b1.position[1])
        delta_y == FSub(b2.position[2], b1.position[2])
        delta_z == FSub(b1.position[3], b2.position[3])
    IN  IF IsNaN(delta_x) \/ IsNaN(delta_y) \/ IsNaN(delta_z) THEN NaN
        ELSE sqrtf(delta_x * delta_x + delta_y * delta_y + delta_z * delta_z)

distance_to_wall(subject_boid) ==
    LET x == subject_boid.position[1]
        z == subject_boid.position[3]
    IN  IF IsNaN(x) \/ IsNaN(z) THEN NaN
        ELSE ENVIRONMENT_RADIUS_XZ - sqrtf(x * x + z * z)

distance_to_floor(subject_boid) ==
    FSub(subject_boid.position[2], ENVIRONMENT_FLOOR_Y)

distance_to_ceiling(subject_boid) ==
    FSub(ENVIRONMENT_HEIGHT, subject_boid.position[2])

\* Variant: the floor is left out of the minimum.
MinDistanceWithoutFloor(subject_boid) ==
    fminf(distance_to_wall(subject_boid), distance_to_ceiling(subject_boid))
boid_physics_min_distance_to_environment(subject_boid) ==
    fminf(fminf(distance_to_wall(subject_boid),
                distance_to_floor(subject_boid)),
          distance_to_ceiling(subject_boid))

\* The divisor of the repulsion strengths of the environment and of
\* separation, d * d + 1e-6, in units of 1/MICRO.
SquarePlusEpsilon(d) == d * d + EPSILON

\* The divisor of the cohesion weight, dist * dist, in units of 1/MICRO.
cohesion_weight_divisor(dist) == dist * dist

\* strength / (d * d + 1e-6), result in units of 1/ONE.
InverseSquare(strength, d) == RoundDiv(ONE * strength, SquarePlusEpsilon(d))

\* The test that guards each of the three repulsion terms.
\* Variant: a boundary exactly at the trigger distance repels as well.
BoundaryRepelsInclusive(distance) ==
    ~IsNaN(distance) /\ distance <= BOID_TRIGGER_ENVIRONMENT
BoundaryRepels(distance) == FLess(distance, BOID_TRIGGER_ENVIRONMENT)

\* What the three ifs of boid_physics_target_direction_environment add to
\* *target_direction, which its caller has set to zero.
environment_repulsion(subject_boid) ==
    LET wall_distance    == distance_to_wall(subject_boid)
        floor_distance   == distance_to_floor(subject_boid)
        ceiling_distance == distance_to_ceiling(subject_boid)
    IN  [wall |->
            IF BoundaryRepels(wall_distance)
            THEN LET repulsion_strength ==
                         InverseSquare(BOID_STRENGTH_ENVIRONMENT, wall_distance)
                 IN  << 0 - FMul(repulsion_strength, subject_boid.position[1]),
                        0,
                        0 - FMul(repulsion_strength, subject_boid.position[3]) >>
            ELSE ZeroVector,
         floor |->
            IF BoundaryRepels(floor_distance)
            THEN <<0, InverseSquare(BOID_STRENGTH_ENVIRONMENT, floor_distance), 0>>
            ELSE ZeroVector,
         ceiling |->
            IF BoundaryRepels(ceiling_distance)
            THEN <<0, 0 - InverseSquare(BOID_STRENGTH_ENVIRONMENT, ceiling_distance), 0>>
            ELSE ZeroVector]

boid_physics_target_direction_environment(subject_boid) ==
    LET added == environment_repulsion(subject_boid)
    IN  geometry_normalize_vector(
            VecSub(VecAdd(VecAdd(added.wall, added.floor), added.ceiling),
                   subject_boid.direction))

\* The four places that read another boid.  Each takes both flock buffers and
\* returns the one the source indexes there.
\* Variant: the neighbour scan indexes array_boids_current.
ScanBufferCurrent(cur, prev) == cur
ScanBuffer(cur, prev)       == prev    \* boid_behavior.c:85
SeparationBuffer(cur, prev) == prev    \* boid_behavior.c:182
\* Variant: alignment averages the directions held in array_boids_current.
AlignmentBufferCurrent(cur, prev) == cur
AlignmentBuffer(cur, prev)  == prev    \* boid_physics.c:167
CohesionBuffer(cur, prev)   == prev    \* boid_physics.c:206

NeighborSlots == 0 .. (BOID_NEIGHBORHOOD_SIZE - 1)

\* f[0] + ... + f[k]
RECURSIVE SumUpTo(_, _)
SumUpTo(f, k) == IF k < 0 THEN 0 ELSE FAdd(SumUpTo(f, k - 1), f[k])

RECURSIVE MaxUpTo(_, _)
MaxUpTo(f, k) == IF k < 0 THEN 0 ELSE Max2(MaxUpTo(f, k - 1), f[k])

boid_physics_target_direction_neighbor_alignment(subject_boid, nbrs, buffer) ==
    LET sum(c) == SumUpTo([k \in NeighborSlots |->
                              buffer[nbrs[k].index].direction[c]],
                          BOID_NEIGHBORHOOD_SIZE - 1)
        avg(c) == IF IsNaN(sum(c)) THEN NaN
                  ELSE RoundDiv(sum(c), BOID_NEIGHBORHOOD_SIZE)
    IN  geometry_normalize_vector(
            Vec(LAMBDA c : FSub(avg(c), subject_boid.direction[c])))

\* weight = BOID_STRENGTH_COHESION / (dist * dist), with no epsilon.  A
\* neighbour at distance 0 has weight +inf, which makes total_weight +inf and
\* every average inf/inf (or NaN/inf): the target is NaN on all axes.
\* Finite weights are in units of 1/MICRO and are reduced by a common factor
\* when the largest would not fit a 32-bit product.
boid_physics_target_direction_neighbor_cohesion(subject_boid, nbrs, buffer) ==
    LET dist == Tabulate([k \in NeighborSlots |->
                    boid_physics_distance_of_boids(subject_boid,
                                                   buffer[nbrs[k].index])])
    IN  IF \E k \in NeighborSlots :
               \/ IsNaN(dist[k])
               \/ cohesion_weight_divisor(dist[k]) = 0
               \/ VecHasNaN(buffer[nbrs[k].index].position)
        THEN NaNVector
        ELSE LET raw    == Tabulate([k \in NeighborSlots |->
                               (BOID_STRENGTH_COHESION * MICRO)
                                   \div cohesion_weight_divisor(dist[k])])
                 factor == (MaxUpTo(raw, BOID_NEIGHBORHOOD_SIZE - 1)
                               \div WEIGHT_RANGE) + 1
                 weight == Tabulate([k \in NeighborSlots |->
                                        raw[k] \div factor])
                 total_weight == SumUpTo(weight, BOID_NEIGHBORHOOD_SIZE - 1)
                 sum(c) == SumUpTo([k \in NeighborSlots |->
                                       buffer[nbrs[k].index].position[c]
                                           * weight[k]],
                                   BOID_NEIGHBORHOOD_SIZE - 1)
                 avg(c) == RoundDiv(sum(c), total_weight)
             IN  geometry_normalize_vector(
                     Vec(LAMBDA c : FSub(avg(c), subject_boid.position[c])))

boid_physics_update_position(subject_boid) ==
    [subject_boid EXCEPT
        !.position = VecAdd(subject_boid.position,
                            Vec(LAMBDA c :
                                IF IsNaN(subject_boid.direction[c]) THEN NaN
                                ELSE RoundDiv(subject_boid.direction[c]
                                                  * BOID_SPEED, ONE)))]

\* ------------------------------------------------------------ boid_behavior.c
compare_neighbor_boids(a, b) ==
    IF FLess(a.distance, b.distance) THEN 0 - 1
    ELSE IF FGreater(a.distance, b.distance) THEN 1
    ELSE 0

SlotPermutations ==
    {p \in [Slots -> Slots] : \A a, b \in Slots : a # b => p[a] # p[b]}

\* qsort: every arrangement of the input in which no element precedes one
\* that the comparison ranks before it.  The order of elements that compare
\* equal is unspecified, so all of their arrangements are results.
sort_all_neighbors(all_neighbors) ==
    { Tabulate([s \in Slots |-> all_neighbors[p[s]]]) :
        p \in {q \in SlotPermutations :
                 \A a, b \in Slots :
                    a < b => compare_neighbor_boids(all_neighbors[q[a]],
                                                    all_neighbors[q[b]]) <= 0} }

\* First loop of boid_behavior_find_neighbors: distance to every boid.
\* Variant: the indices recorded count from 1.
AllPossibleNeighborsFromOne(subject_boid, buffer) ==
    Tabulate([s \in Slots |->
        [distance |-> boid_physics_distance_of_boids(subject_boid, buffer[s]),
         index    |-> s + 1]])
all_possible_neighbors(subject_boid, buffer) ==
    Tabulate([s \in Slots |->
        [distance |-> boid_physics_distance_of_boids(subject_boid, buffer[s]),
         index    |-> s]])

\* The entries 0 .. K of a sorted array: the one that is skipped and the K
\* that are copied out.
SortedHead(sorted_neighbors) ==
    Tabulate([k \in 0 .. BOID_NEIGHBORHOOD_SIZE |-> sorted_neighbors[k]])

\* Last loop of boid_behavior_find_neighbors: neighbors[i] = sorted[i + 1].
PickClosest(sorted_neighbors) ==
    Tabulate([k \in NeighborSlots |-> sorted_neighbors[k + 1]])

\* The possible neighbour arrays, one per result of the sort.
boid_behavior_find_neighbors(subject_boid, buffer) ==
    { PickClosest(srt) :
        srt \in sort_all_neighbors(all_possible_neighbors(subject_boid, buffer)) }

\* Variant: the comparison with the threshold is not strict.
EnvironmentTriggerInclusive(subject_boid) ==
    ~IsNaN(boid_physics_min_distance_to_environment(subject_boid))
    /\ boid_physics_min_distance_to_environment(subject_boid)
           <= BOID_TRIGGER_ENVIRONMENT
boid_behavior_environment_trigger(subject_boid) ==
    FLess(boid_physics_min_distance_to_environment(subject_boid),
          BOID_TRIGGER_ENVIRONMENT)

boid_behavior_handle_environment(subject_boid) ==
    LET repulsion_direction ==
            boid_physics_target_direction_environment(subject_boid)
    IN  [subject_boid EXCEPT
            !.direction = geometry_normalize_vector(
                VecAdd(subject_boid.direction,
                       VecScaleMicro(repulsion_direction,
                                     BOID_STRENGTH_ENVIRONMENT)))]

handle_neighbors_align(subject_boid, nbrs, buffer) ==
    LET alignment_direction ==
            boid_physics_target_direction_neighbor_alignment(
                subject_boid, nbrs, buffer)
    IN  [subject_boid EXCEPT
            !.direction = geometry_normalize_vector(
                VecAdd(subject_boid.direction,
                       VecScaleMicro(alignment_direction,
                                     BOID_STRENGTH_ALIGNMENT)))]

handle_neighbors_separate(subject_boid, closest_neighbor, buffer) ==
    LET neighbor == buffer[closest_neighbor.index]
        distance == boid_physics_distance_of_boids(subject_boid, neighbor)
    IN  IF FLess(distance, BOID_TRIGGER_SEPARATE)
        THEN LET separation_vector ==
                     geometry_normalize_vector(
                         VecSub(subject_boid.position, neighbor.position))
                 repulsion_strength ==
                     InverseSquare(BOID_STRENGTH_SEPARATE, distance)
             IN  [subject_boid EXCEPT
                     !.direction = geometry_normalize_vector(
                         VecAdd(subject_boid.direction,
                                Vec(LAMBDA c :
                                    FMul(repulsion_strength,
                                         separation_vector[c]))))]
        ELSE subject_boid

handle_neighbors_cohere(subject_boid, nbrs, buffer) ==
    LET cohesion_direction ==
            boid_physics_target_direction_neighbor_cohesion(
                subject_boid, nbrs, buffer)
    IN  [subject_boid EXCEPT
            !.direction = geometry_normalize_vector(
                VecAdd(subject_boid.direction,
                       VecScaleMicro(cohesion_direction,
                                     BOID_STRENGTH_COHESION)))]

\* boid_behavior_handle_neighbors once the neighbour array is known.
FlockWith(subject_boid, nbrs, cur, prev) ==
    handle_neighbors_cohere(
        handle_neighbors_separate(
            handle_neighbors_align(subject_boid, nbrs,
                                   AlignmentBuffer(cur, prev)),
            nbrs[0], SeparationBuffer(cur, prev)),
        nbrs, CohesionBuffer(cur, prev))

\* The possible results of boid_behavior_handle_neighbors.
boid_behavior_handle_neighbors(subject_boid, cur, prev) ==
    { FlockWith(subject_boid, nbrs, cur, prev) :
        nbrs \in boid_behavior_find_neighbors(subject_boid,
                                              ScanBuffer(cur, prev)) }

\* geometry_normalize_vector gives a non-finite vector in two cases: its
\* argument is non-finite, or its argument is the zero vector.  A behaviour
\* that starts from finite values and ends in a non-finite direction has
\* therefore passed a zero vector to one of its two calls.
FiniteBoid(b) == ~VecHasNaN(b.position) /\ ~VecHasNaN(b.direction)

\* One behaviour took the boid from before to after, reading other boids whose
\* values it used were finite or not: it gave a zero vector to
\* geometry_normalize_vector.
BehaviourNormalizesZero(before, after, others_finite) ==
    /\ FiniteBoid(before)
    /\ others_finite
    /\ VecHasNaN(after.direction)

EnvironmentNormalizesZero(subject_boid) ==
    BehaviourNormalizesZero(subject_boid,
                            boid_behavior_handle_environment(subject_boid),
                            TRUE)

\* The three steers of boid_behavior_handle_neighbors on the neighbours found:
\* the boid they end in, and whether one of them gave a zero vector to
\* geometry_normalize_vector.  A neighbour at distance 0 makes the cohesion
\* target non-finite by a division, before geometry_normalize_vector is
\* reached.
\* Variant: separation starts from the heading the subject had before
\* alignment.
FlockTracedAlignmentDropped(subject_boid, nbrs, cur, prev) ==
    LET aligned   == handle_neighbors_align(subject_boid, nbrs,
                                            AlignmentBuffer(cur, prev))
        separated == handle_neighbors_separate(subject_boid, nbrs[0],
                                               SeparationBuffer(cur, prev))
        cohered   == handle_neighbors_cohere(separated, nbrs,
                                             CohesionBuffer(cur, prev))
    IN  [boid |-> cohered,
         zero |->
            \/ BehaviourNormalizesZero(
                   subject_boid, aligned,
                   \A k \in NeighborSlots :
                       ~VecHasNaN(AlignmentBuffer(cur, prev)
                                      [nbrs[k].index].direction))
            \/ BehaviourNormalizesZero(
                   aligned, separated,
                   ~VecHasNaN(SeparationBuffer(cur, prev)
                                  [nbrs[0].index].position))
            \/ BehaviourNormalizesZero(
                   separated, cohered,
                   \A k \in NeighborSlots :
                       /\ ~VecHasNaN(CohesionBuffer(cur, prev)
                                         [nbrs[k].index].position)
                       /\ boid_physics_distance_of_boids(
                              separated,
                              CohesionBuffer(cur, prev)[nbrs[k].index]) # 0)]
FlockTraced(subject_boid, nbrs, cur, prev) ==
    LET aligned   == handle_neighbors_align(subject_boid, nbrs,
                                            AlignmentBuffer(cur, prev))
        separated == handle_neighbors_separate(aligned, nbrs[0],
                                               SeparationBuffer(cur, prev))
        cohered   == handle_neighbors_cohere(separated, nbrs,
                                             CohesionBuffer(cur, prev))
    IN  [boid |-> cohered,
         zero |->
            \/ BehaviourNormalizesZero(
                   subject_boid, aligned,
                   \A k \in NeighborSlots :
                       ~VecHasNaN(AlignmentBuffer(cur, prev)
                                      [nbrs[k].index].direction))
            \/ BehaviourNormalizesZero(
                   aligned, separated,
                   ~VecHasNaN(SeparationBuffer(cur, prev)
                                  [nbrs[0].index].position))
            \/ BehaviourNormalizesZero(
                   separated, cohered,
                   \A k \in NeighborSlots :
                       /\ ~VecHasNaN(CohesionBuffer(cur, prev)
                                         [nbrs[k].index].position)
                       /\ boid_physics_distance_of_boids(
                              separated,
                              CohesionBuffer(cur, prev)[nbrs[k].index]) # 0)]

FlockNormalizesZero(subject_boid, nbrs, cur, prev) ==
    FlockTraced(subject_boid, nbrs, cur, prev).zero

\* ------------------------------------------------------------ state
VARIABLES
    array_boids_current,    \* boids.c:23
    array_boids_previous,   \* boids.c:24
    pc,                     \* where the program is
    i,                      \* loop index of update_boids_current
    tick,                   \* number of boids_update calls started
    frame_start,            \* array_boids_current when the tick began
    updated,                \* slots already processed in this pass
    mode,                   \* branch last taken by each boid
    sorted,                 \* all_possible_neighbors[0 .. K] after qsort
    neighbors,              \* neighbors[] of boid_behavior_handle_neighbors
    subject,                \* slot last entered by the loop, -1 outside a pass
    probe,                  \* boid handed to the proximity oracle
    probe_min,              \* boid_physics_min_distance_to_environment(probe)
    probe_trigger,          \* boid_behavior_environment_trigger(probe)
    probe_repulsion,        \* the three terms added to the target for probe
    probe_target,           \* boid_physics_target_direction_environment(probe)
    qsort_build,            \* how the C library's qsort orders equal elements
    qsort_calls,            \* calls of qsort made by the repeated behaviours
    first_run,              \* the subject after its behaviours were run once
    second_run,             \* the subject after they were run again
    publishes,              \* calls of update_boids_previous so far
    initialize_calls,       \* calls of boids_initialize so far
    redisplay,              \* glutPostRedisplay pending
    drawn,                  \* what draw_boids read at its last call
    normalized_zero,        \* geometry_normalize_vector was given a zero vector
    submarine_direction,    \* object_submarine.direction
    submarine_speed,        \* object_submarine.speed
    wire_frame_on,          \* renderer.c:21
    full_screen_on,         \* window.c:20
    fog_on,                 \* renderer.c:20
    mouse_x,                \* main_window.mouse_x
    mouse_y,                \* main_window.mouse_y
    camera_theta,           \* main_camera.theta
    camera_phi,             \* main_camera.phi
    last_event              \* the input callback called last and its arguments

\* Nothing has been computed for probe.
NoProbeResult ==
    /\ probe_repulsion = [wall |-> ZeroVector, floor |-> ZeroVector,
                          ceiling |-> ZeroVector]
    /\ probe_target = ZeroVector

oracle_vars == <<probe, probe_min, probe_trigger, probe_repulsion,
                 probe_target>>

rerun_vars == <<qsort_build, qsort_calls, first_run, second_run>>

host_vars == <<publishes, initialize_calls, redisplay, drawn, normalized_zero>>

submarine_vars == <<submarine_direction, submarine_speed>>

toggle_vars == <<wire_frame_on, full_screen_on>>

camera_vars == <<mouse_x, mouse_y, camera_theta, camera_phi>>

input_vars == <<submarine_direction, submarine_speed, wire_frame_on,
                full_screen_on, fog_on, mouse_x, mouse_y, camera_theta,
                camera_phi, last_event>>

vars == <<array_boids_current, array_boids_previous, pc, i, tick,
          frame_start, updated, mode, sorted, neighbors, subject,
          probe, probe_min, probe_trigger, probe_repulsion, probe_target,
          qsort_build, qsort_calls, first_run, second_run,
          publishes, initialize_calls, redisplay, drawn, normalized_zero,
          submarine_direction, submarine_speed, wire_frame_on,
          full_screen_on, fog_on, mouse_x, mouse_y, camera_theta,
          camera_phi, last_event>>

ZeroBoid == [position |-> ZeroVector, direction |-> ZeroVector]

ZeroNeighbor == [distance |-> 0, index |-> 0]

\* Values of the locals of boid_behavior_handle_neighbors while no call of it
\* is in progress, and of the loop variable outside the loop.
NoSorted    == [k \in 0 .. BOID_NEIGHBORHOOD_SIZE |-> ZeroNeighbor]
NoNeighbors == [k \in NeighborSlots |-> ZeroNeighbor]
NoSubject   == 0 - 1

\* Nothing has been run twice.
InitRerunVars ==
    /\ qsort_build = "ties ascending"
    /\ qsort_calls = 0
    /\ first_run = ZeroBoid
    /\ second_run = ZeroBoid

\* main.c:29: window_initialize has created the window and registered the
\* callbacks, so a first display is pending; nothing else has been called.
InitHostVars ==
    /\ publishes = 0
    /\ initialize_calls = 0
    /\ redisplay = TRUE
    /\ drawn = [s \in Slots |-> ZeroBoid]
    /\ normalized_zero = FALSE

\* The statics behind the input callbacks as their initializers leave them:
\* object_submarine zeroed (scene_object_initialize writes the same zeros),
\* the toggles 0, main_window with no mouse position, main_camera at its
\* default angles.
InitInputVars ==
    /\ submarine_direction = ZeroVector
    /\ submarine_speed = 0
    /\ wire_frame_on = FALSE
    /\ full_screen_on = FALSE
    /\ fog_on = FALSE
    /\ mouse_x = 0 - 1
    /\ mouse_y = 0 - 1
    /\ camera_theta = DEFAULT_CAMERA_THETA
    /\ camera_phi = DEFAULT_CAMERA_PHI
    /\ last_event = <<"none">>

\* Static storage is zero-initialised before main runs.
InitFlock ==
    /\ InitHostVars
    /\ InitInputVars
    /\ array_boids_current  = [s \in Slots |-> ZeroBoid]
    /\ array_boids_previous = [s \in Slots |-> ZeroBoid]
    /\ i = 0
    /\ tick = 0
    /\ frame_start = [s \in Slots |-> ZeroBoid]
    /\ updated = {}
    /\ mode = [s \in Slots |-> "none"]
    /\ sorted = NoSorted
    /\ neighbors = NoNeighbors
    /\ subject = NoSubject

Init ==
    /\ InitFlock
    /\ pc = "main"
    /\ probe = ZeroBoid
    /\ probe_min = 0
    /\ probe_trigger = FALSE
    /\ NoProbeResult
    /\ InitRerunVars

\* ------------------------------------------------------------ boids_initialize
\* One element per boid of what the six rand() calls of boids_initialize
\* return: px, pz, dx, dy, dz are (GLfloat)rand() / RAND_MAX in units of
\* 1/ONE, py is the raw rand() value that is reduced modulo 8.
RandDraws ==
    { [px |-> 500, py |-> 3,  pz |-> 500, dx |-> ONE, dy |-> 0,   dz |-> 0],
      [px |-> 550, py |-> 11, pz |-> 500, dx |-> 0,   dy |-> 0,   dz |-> ONE],
      [px |-> 500, py |-> 7,  pz |-> 500, dx |-> 0,   dy |-> ONE, dz |-> 0],
      [px |-> 500, py |-> 3,  pz |-> 500, dx |-> 0,   dy |-> 0,   dz |-> 0] }

\* The boid that boids_initialize makes of one element of draws.
\* Variant: the 1.0f is not added to rand() % 8.
RandomBoidWithoutOffset(r) ==
    [position  |-> << r.px * 8 - 4 * ONE,
                      (r.py % 8) * ONE,
                      r.pz * 8 - 4 * ONE >>,
     direction |-> geometry_normalize_vector(<<r.dx, r.dy, r.dz>>)]
RandomBoid(r) ==
    [position  |-> << r.px * 8 - 4 * ONE,
                      ((r.py % 8) + 1) * ONE,
                      r.pz * 8 - 4 * ONE >>,
     direction |-> geometry_normalize_vector(<<r.dx, r.dy, r.dz>>)]

\* Where renderer_initialize, the one caller of boids_initialize, is called
\* from: main, between window_initialize and glutMainLoop.
\* Variant: a callback calls it as well.
RendererInitializeFromCallback == pc \in {"main", "glutMainLoop"}
renderer_initialize == pc = "main"

\* main -> renderer_initialize -> boids_initialize, up to glutMainLoop, with
\* rand() returning one element of draw_set for each boid.
InitializeFrom(draw_set) ==
    /\ renderer_initialize
    /\ \E draws \in [Slots -> draw_set] :
          /\ array_boids_current' = [s \in Slots |-> RandomBoid(draws[s])]
          /\ normalized_zero' =
                 \E s \in Slots :
                     <<draws[s].dx, draws[s].dy, draws[s].dz>> = ZeroVector
    /\ initialize_calls' = initialize_calls + 1
    /\ pc' = "glutMainLoop"
    /\ UNCHANGED <<array_boids_previous, i, tick, frame_start, updated,
                   mode, sorted, neighbors, subject>>
    /\ UNCHANGED <<publishes, redisplay, drawn>>
    /\ UNCHANGED oracle_vars
    /\ fog_on' = TRUE
    /\ UNCHANGED <<submarine_vars, toggle_vars, camera_vars, last_event>>
    /\ UNCHANGED rerun_vars

boids_initialize == InitializeFrom(RandDraws)

\* ------------------------------------------------------------ boids.c
\* The if of update_boids_current: the branch a boid takes in this frame.
\* last_mode is the branch it took in the frame before.
\* Variant: a boid that flocked in the frame before goes on flocking.
ChooseModeSticky(subject_boid, last_mode) ==
    IF last_mode # "flock" /\ boid_behavior_environment_trigger(subject_boid)
    THEN "environment"
    ELSE "flock"
ChooseMode(subject_boid, last_mode) ==
    IF boid_behavior_environment_trigger(subject_boid)
    THEN "environment"
    ELSE "flock"

\* Body of the loop of update_boids_current up to the position update: the
\* possible boids after the behaviour of the branch taken.
\* Variant: the if has no else, a boid near a boundary flocks as well.
SteerWithoutElse(subject_boid, last_mode, cur, prev) ==
    IF ChooseMode(subject_boid, last_mode) = "environment"
    THEN boid_behavior_handle_neighbors(
             boid_behavior_handle_environment(subject_boid), cur, prev)
    ELSE boid_behavior_handle_neighbors(subject_boid, cur, prev)
Steer(subject_boid, last_mode, cur, prev) ==
    IF ChooseMode(subject_boid, last_mode) = "environment"
    THEN {boid_behavior_handle_environment(subject_boid)}
    ELSE boid_behavior_handle_neighbors(subject_boid, cur, prev)

\* The possible values of slot s after one iteration of the loop.
UpdateOutcomes(cur, prev, last_mode, s) ==
    { boid_physics_update_position(b) :
        b \in Steer(cur[s], last_mode, cur, prev) }

\* glutMainLoop calls one callback at a time, each after the one before has
\* returned: callback_display when a redisplay is pending, callback_idle when
\* nothing is.
\* Variant: a display is also dispatched while an update pass is running.
GlutDispatchesDuringPass(callback) ==
    IF callback = "callback_display"
    THEN (pc = "glutMainLoop" /\ redisplay) \/ pc = "update_boids_current"
    ELSE pc = "glutMainLoop" /\ ~redisplay
GlutDispatches(callback) ==
    /\ pc = "glutMainLoop"
    /\ redisplay <=> (callback = "callback_display")

\* callback_display -> renderer_draw -> draw_boids: a copy of every slot of
\* array_boids_current is taken and drawn.
callback_display ==
    /\ GlutDispatches("callback_display")
    /\ drawn' = array_boids_current
    /\ redisplay' = FALSE
    /\ UNCHANGED <<array_boids_current, array_boids_previous, pc, i, tick,
                   frame_start, updated, mode, sorted, neighbors, subject>>
    /\ UNCHANGED <<publishes, initialize_calls, normalized_zero>>
    /\ UNCHANGED oracle_vars
    /\ UNCHANGED input_vars
    /\ UNCHANGED rerun_vars

\* The possible values of slot s after one iteration of the loop, each with
\* whether a call of geometry_normalize_vector in it was given a zero vector.
TracedOutcomes(cur, prev, last_mode, s) ==
    IF ChooseMode(cur[s], last_mode) = "environment"
    THEN { [boid |-> boid_physics_update_position(
                         boid_behavior_handle_environment(cur[s])),
            zero |-> EnvironmentNormalizesZero(cur[s])] }
    ELSE { [boid |-> boid_physics_update_position(traced.boid),
            zero |-> traced.zero] :
             traced \in { FlockTraced(cur[s], nbrs, cur, prev) :
                            nbrs \in boid_behavior_find_neighbors(
                                         cur[s], ScanBuffer(cur, prev)) } }

\* callback_idle -> boids_update -> update_boids_current, loop entry, for the
\* first ticks ticks of the run.
UpdateWithin(ticks) ==
    /\ GlutDispatches("callback_idle")
    /\ tick < ticks
    /\ tick' = tick + 1
    /\ pc' = "update_boids_current"
    /\ i' = 0
    /\ updated' = {}
    /\ frame_start' = array_boids_current
    /\ UNCHANGED <<array_boids_current, array_boids_previous, mode, sorted,
                   neighbors, subject>>
    /\ UNCHANGED host_vars
    /\ UNCHANGED oracle_vars
    /\ UNCHANGED input_vars
    /\ UNCHANGED rerun_vars

boids_update == UpdateWithin(MaxTicks)

\* End of one iteration of the for loop of update_boids_current.
\* Variant: the loop ends before the last slot.
NextIterationShort ==
    /\ updated' = updated \cup {i}
    /\ i' = i + 1
    /\ pc' = IF i + 1 >= BOID_COUNT - 1 THEN "update_boids_previous"
                                        ELSE "update_boids_current"
NextIteration ==
    /\ updated' = updated \cup {i}
    /\ i' = i + 1
    /\ pc' = IF i + 1 = BOID_COUNT THEN "update_boids_previous"
                                   ELSE "update_boids_current"

\* The two buffers after the loop body has worked on slot s and left boid b:
\* it works through boid = &array_boids_current[s] and its callees take the
\* boids of array_boids_previous by value.
\* Variant: the result is stored in slot s of both buffers.
WriteSubjectInBoth(cur, prev, s, b) ==
    [current |-> [cur EXCEPT ![s] = b], previous |-> [prev EXCEPT ![s] = b]]
WriteSubject(cur, prev, s, b) ==
    [current |-> [cur EXCEPT ![s] = b], previous |-> prev]

\* One iteration of the for loop, in slot order, from the trigger test: the
\* whole iteration on the environment branch; on the flock branch up to the
\* return of boid_behavior_find_neighbors.
update_boids_current ==
    /\ pc = "update_boids_current"
    /\ LET boid   == array_boids_current[i]
           branch == ChooseMode(boid, mode[i])
       IN  /\ mode' = [mode EXCEPT ![i] = branch]
           /\ subject' = i
           /\ IF branch = "environment"
              THEN /\ LET written ==
                              WriteSubject(
                                  array_boids_current, array_boids_previous, i,
                                  boid_physics_update_position(
                                      boid_behavior_handle_environment(boid)))
                      IN  /\ array_boids_current' = written.current
                          /\ array_boids_previous' = written.previous
                   /\ normalized_zero' =
                          (normalized_zero \/ EnvironmentNormalizesZero(boid))
                   /\ NextIteration
                   /\ UNCHANGED <<sorted, neighbors>>
              ELSE /\ \E srt \in
                          { SortedHead(whole) :
                              whole \in sort_all_neighbors(
                                  all_possible_neighbors(
                                      boid,
                                      ScanBuffer(array_boids_current,
                                                 array_boids_previous))) } :
                          /\ sorted' = srt
                          /\ neighbors' = PickClosest(srt)
                   /\ pc' = "boid_behavior_handle_neighbors"
                   /\ UNCHANGED <<array_boids_current, array_boids_previous,
                                  i, updated, normalized_zero>>
    /\ UNCHANGED <<tick, frame_start>>
    /\ UNCHANGED <<publishes, initialize_calls, redisplay, drawn>>
    /\ UNCHANGED oracle_vars
    /\ UNCHANGED input_vars
    /\ UNCHANGED rerun_vars

\* Rest of the iteration on the flock branch: alignment, separation and
\* cohesion on the neighbours found, then boid_physics_update_position.
boid_behavior_handle_neighbors_steer ==
    /\ pc = "boid_behavior_handle_neighbors"
    /\ LET traced  == FlockTraced(array_boids_current[i], neighbors,
                                  array_boids_current, array_boids_previous)
           written == WriteSubject(
                          array_boids_current, array_boids_previous, i,
                          boid_physics_update_position(traced.boid))
       IN  /\ array_boids_current' = written.current
           /\ array_boids_previous' = written.previous
           /\ normalized_zero' = (normalized_zero \/ traced.zero)
    /\ NextIteration
    /\ sorted' = NoSorted
    /\ neighbors' = NoNeighbors
    /\ UNCHANGED <<tick, frame_start, mode, subject>>
    /\ UNCHANGED <<publishes, initialize_calls, redisplay, drawn>>
    /\ UNCHANGED oracle_vars
    /\ UNCHANGED input_vars
    /\ UNCHANGED rerun_vars

\* Variant: the copy loop stops one slot short.
RECURSIVE CopyFromShort(_, _, _)
CopyFromShort(prev, cur, k) ==
    IF k + 1 >= BOID_COUNT THEN prev
    ELSE CopyFromShort([prev EXCEPT ![k] = cur[k]], cur, k + 1)
\* for (i...) array_boids_previous[i] = array_boids_current[i];
RECURSIVE CopyFrom(_, _, _)
CopyFrom(prev, cur, k) ==
    IF k >= BOID_COUNT THEN prev
    ELSE CopyFrom([prev EXCEPT ![k] = cur[k]], cur, k + 1)

\* update_boids_previous, then the return to callback_idle, which ends with
\* glutPostRedisplay.
update_boids_previous ==
    /\ pc = "update_boids_previous"
    /\ array_boids_previous' =
           CopyFrom(array_boids_previous, array_boids_current, 0)
    /\ publishes' = publishes + 1
    /\ redisplay' = TRUE
    /\ pc' = "glutMainLoop"
    /\ subject' = NoSubject
    /\ UNCHANGED <<array_boids_current, i, tick, frame_start, updated, mode,
                   sorted, neighbors>>
    /\ UNCHANGED <<initialize_calls, drawn, normalized_zero>>
    /\ UNCHANGED oracle_vars
    /\ UNCHANGED input_vars
    /\ UNCHANGED rerun_vars

Next ==
    \/ boids_initialize
    \/ callback_display
    \/ boids_update
    \/ update_boids_current
    \/ boid_behavior_handle_neighbors_steer
    \/ update_boids_previous

Spec == Init /\ [][Next]_vars

\* ------------------------------------------------ the pass in another order
\* The loop body applied to any slot not yet processed in this pass, as a
\* scheduler that runs the per-agent updates in parallel could order them.
update_any_order ==
    /\ pc = "update_boids_current"
    /\ \E s \in Slots \ updated :
          /\ \E o \in TracedOutcomes(array_boids_current,
                                     array_boids_previous, mode[s], s) :
                /\ LET written == WriteSubject(array_boids_current,
                                               array_boids_previous, s, o.boid)
                   IN  /\ array_boids_current' = written.current
                       /\ array_boids_previous' = written.previous
                /\ normalized_zero' = (normalized_zero \/ o.zero)
          /\ mode' = [mode EXCEPT
                         ![s] = ChooseMode(array_boids_current[s], mode[s])]
          /\ subject' = s
          /\ updated' = updated \cup {s}
    /\ i' = i + 1
    /\ pc' = IF i + 1 = BOID_COUNT THEN "update_boids_previous"
                                   ELSE "update_boids_current"
    /\ UNCHANGED <<tick, frame_start, sorted, neighbors>>
    /\ UNCHANGED <<publishes, initialize_calls, redisplay, drawn>>
    /\ UNCHANGED oracle_vars
    /\ UNCHANGED input_vars
    /\ UNCHANGED rerun_vars

NextAnyOrder ==
    \/ boids_initialize
    \/ callback_display
    \/ boids_update
    \/ update_any_order
    \/ update_boids_previous

SpecAnyOrder == Init /\ [][NextAnyOrder]_vars

\* ------------------------------------------------ a long run
\* The draw that puts a boid on the axis of the enclosure at y = 8, heading
\* straight up: rand() / RAND_MAX = 0.5 for x and z, rand() % 8 = 7, and
\* direction draws (0, d, 0).
RisingDraws == { r \in RandDraws : r.py % 8 = 7 /\ r.dx = 0 /\ r.dz = 0 }

boids_initialize_rising == InitializeFrom(RisingDraws)

boids_update_long == UpdateWithin(RiseTicks)

NextRise ==
    \/ boids_initialize_rising
    \/ callback_display
    \/ boids_update_long
    \/ update_boids_current
    \/ boid_behavior_handle_neighbors_steer
    \/ update_boids_previous

SpecRise == Init /\ [][NextRise]_vars

\* ------------------------------------------------ the first tick alone
\* Draws at the ends of the ranges: rand() = 0 and rand() = RAND_MAX for x and
\* z, rand() % 8 = 0 and rand() % 8 = 7 for y.
CornerDraws ==
    { [px |-> 0,   py |-> 8, pz |-> 0,   dx |-> ONE, dy |-> 0,   dz |-> 0],
      [px |-> ONE, py |-> 7, pz |-> ONE, dx |-> 0,   dy |-> 0,   dz |-> ONE],
      [px |-> ONE, py |-> 0, pz |-> 0,   dx |-> 0,   dy |-> ONE, dz |-> 0],
      [px |-> 500, py |-> 3, pz |-> 500, dx |-> ONE, dy |-> 0,   dz |-> 0] }

boids_initialize_corners == InitializeFrom(CornerDraws)

\* The first call of boids_update.
boids_update_first == UpdateWithin(1)

NextFirstTick ==
    \/ boids_initialize_corners
    \/ callback_display
    \/ boids_update_first
    \/ update_boids_current
    \/ boid_behavior_handle_neighbors_steer
    \/ update_boids_previous

SpecFirstTick == Init /\ [][NextFirstTick]_vars

\* ------------------------------------------------ the proximity oracle alone
\* Boids handed to the oracle: on the axis, around the trigger distance of the
\* wall, of the floor and of the ceiling, and outside the enclosure.
ProbeX == {0, 4 * ONE, 8 * ONE - 10, 8 * ONE, 8 * ONE + 10, 0 - (8 * ONE + 10),
           11 * ONE}
ProbeY == {0 - 2 * ONE, 0, ONE - 10, ONE, 4 * ONE, 8 * ONE, 8 * ONE + 10}
ProbeZ == {0, 6 * ONE}

ProbeBoids ==
    { [position |-> <<x, y, z>>, direction |-> <<0, 0, ONE>>] :
        x \in ProbeX, y \in ProbeY, z \in ProbeZ }

InitOracle ==
    /\ InitFlock
    /\ pc = "oracle"
    /\ probe \in ProbeBoids
    /\ probe_min = 0
    /\ probe_trigger = FALSE
    /\ NoProbeResult
    /\ InitRerunVars

oracle_call ==
    /\ pc = "oracle"
    /\ probe_min' = boid_physics_min_distance_to_environment(probe)
    /\ probe_trigger' = boid_behavior_environment_trigger(probe)
    /\ probe_repulsion' = environment_repulsion(probe)
    /\ probe_target' = boid_physics_target_direction_environment(probe)
    /\ pc' = "oracle_done"
    /\ UNCHANGED <<array_boids_current, array_boids_previous, i, tick,
                   frame_start, updated, mode, sorted, neighbors, subject,
                   probe>>
    /\ UNCHANGED rerun_vars
    /\ UNCHANGED host_vars
    /\ UNCHANGED input_vars

NextOracle == oracle_call

SpecOracle == InitOracle /\ [][NextOracle]_vars

\* ------------------------------------------------ the behaviours run twice
\* The C standard leaves open in which order qsort puts elements that compare
\* equal; a C library settles it.  Two libraries: one keeps such elements in
\* the order of the input, one reverses them.
QsortBuilds == {"ties ascending", "ties descending"}

\* An arrangement read as a number in base BOID_COUNT, first index first.
RECURSIVE ArrangementKey(_, _)
ArrangementKey(sorted_neighbors, k) ==
    IF k < 0 THEN 0
    ELSE ArrangementKey(sorted_neighbors, k - 1) * BOID_COUNT
             + sorted_neighbors[k].index

\* The result of qsort in a program linked with the given library.
qsort_of_build(ties, all_neighbors) ==
    LET results == sort_all_neighbors(all_neighbors)
        key(srt) == ArrangementKey(srt, BOID_COUNT - 1)
    IN  CHOOSE srt \in results :
            \A other \in results :
                IF ties = "ties ascending" THEN key(srt) <= key(other)
                                           ELSE key(srt) >= key(other)

\* What the order of equal elements depends on besides the array.
\* Variant: the library keeps a call counter and alternates the order.
QsortTiesAlternating(build, calls) ==
    IF calls % 2 = 0 THEN build
    ELSE IF build = "ties ascending" THEN "ties descending"
                                     ELSE "ties ascending"
QsortTies(build, calls) == build

\* The loop body of update_boids_current on a copy of the subject.
RunBehaviours(subject_boid, cur, prev, ties) ==
    boid_physics_update_position(
        IF boid_behavior_environment_trigger(subject_boid)
        THEN boid_behavior_handle_environment(subject_boid)
        ELSE FlockWith(subject_boid,
                       PickClosest(qsort_of_build(ties,
                           all_possible_neighbors(subject_boid,
                                                  ScanBuffer(cur, prev)))),
                       cur, prev))

\* Boids the repeated run is made with: three initial boids, one of them with
\* the direction that three zero draws give, one near the ceiling, and one
\* placed 0.5 from the second initial boid with the same direction.
RerunBoids ==
    { RandomBoid(r) : r \in {d \in RandDraws : d.py # 7} }
        \cup { [position  |-> <<0, 9 * ONE, 0>>,
                direction |-> <<0, ONE, 0>>],
               [position  |-> <<(9 * ONE) \div 10, 4 * ONE, 0>>,
                direction |-> <<0, 0, ONE>>] }

InitRerun ==
    /\ pc = "rerun"
    /\ array_boids_previous \in [Slots -> RerunBoids]
    /\ i \in Slots
    /\ \E b \in RerunBoids :
          array_boids_current = [array_boids_previous EXCEPT ![i] = b]
    /\ frame_start = array_boids_current
    /\ tick = 0
    /\ updated = {}
    /\ mode = [s \in Slots |-> "none"]
    /\ sorted = NoSorted
    /\ neighbors = NoNeighbors
    /\ subject = i
    /\ probe = ZeroBoid
    /\ probe_min = 0
    /\ probe_trigger = FALSE
    /\ NoProbeResult
    /\ InitHostVars
    /\ InitInputVars
    /\ qsort_build \in QsortBuilds
    /\ qsort_calls = 0
    /\ first_run = ZeroBoid
    /\ second_run = ZeroBoid

rerun_first ==
    /\ pc = "rerun"
    /\ first_run' = RunBehaviours(array_boids_current[i], array_boids_current,
                                  array_boids_previous,
                                  QsortTies(qsort_build, qsort_calls))
    /\ qsort_calls' = qsort_calls + 1
    /\ pc' = "rerun_again"
    /\ UNCHANGED <<array_boids_current, array_boids_previous, i, tick,
                   frame_start, updated, mode, sorted, neighbors, subject,
                   qsort_build, second_run>>
    /\ UNCHANGED oracle_vars
    /\ UNCHANGED input_vars
    /\ UNCHANGED host_vars

rerun_second ==
    /\ pc = "rerun_again"
    /\ second_run' = RunBehaviours(array_boids_current[i], array_boids_current,
                                   array_boids_previous,
                                   QsortTies(qsort_build, qsort_calls))
    /\ qsort_calls' = qsort_calls + 1
    /\ pc' = "rerun_done"
    /\ UNCHANGED <<array_boids_current, array_boids_previous, i, tick,
                   frame_start, updated, mode, sorted, neighbors, subject,
                   qsort_build, first_run>>
    /\ UNCHANGED oracle_vars
    /\ UNCHANGED input_vars
    /\ UNCHANGED host_vars

NextRerun ==
    \/ rerun_first
    \/ rerun_second

SpecRerun == InitRerun /\ [][NextRerun]_vars

\* ------------------------------------------------ the keyboard callbacks
\* geometry.c: every component equal to 0.
geometry_is_zero_vector(vector) == \A c \in Axes : vector[c] = 0

\* Keys of callback_keyboard and callback_keyboard_up; "x" stands for the
\* keys of the default case.
Keys == {"w", "a", "s", "d", "u", "f", "b", "q", "x"}

\* Keys of callback_special and callback_special_up; GLUT_KEY_LEFT stands for
\* the keys that neither tests.
SpecialKeys == {"GLUT_KEY_UP", "GLUT_KEY_DOWN", "GLUT_KEY_LEFT"}

\* The movement cases of the switch of callback_keyboard.
KeyboardDirection(key, direction) ==
    CASE key = "w" -> [direction EXCEPT ![3] = ONE]
      [] key = "s" -> [direction EXCEPT ![3] = 0 - ONE]
      [] key = "a" -> [direction EXCEPT ![1] = ONE]
      [] key = "d" -> [direction EXCEPT ![1] = 0 - ONE]
      [] OTHER     -> direction

\* The switch of callback_keyboard_up.
\* Variant: a released key clears its axis whatever the direction on it.
KeyboardUpDirectionUnconditional(key, direction) ==
    CASE key \in {"w", "s"} -> [direction EXCEPT ![3] = 0]
      [] key \in {"a", "d"} -> [direction EXCEPT ![1] = 0]
      [] OTHER              -> direction
KeyboardUpDirection(key, direction) ==
    CASE key = "w" /\ direction[3] > 0 -> [direction EXCEPT ![3] = 0]
      [] key = "s" /\ direction[3] < 0 -> [direction EXCEPT ![3] = 0]
      [] key = "a" /\ direction[1] > 0 -> [direction EXCEPT ![1] = 0]
      [] key = "d" /\ direction[1] < 0 -> [direction EXCEPT ![1] = 0]
      [] OTHER                         -> direction

SpecialDirection(key, direction) ==
    IF key = "GLUT_KEY_UP" THEN [direction EXCEPT ![2] = ONE]
    ELSE IF key = "GLUT_KEY_DOWN" THEN [direction EXCEPT ![2] = 0 - ONE]
    ELSE direction

SpecialUpDirection(key, direction) ==
    IF key = "GLUT_KEY_UP" /\ direction[2] > 0
    THEN [direction EXCEPT ![2] = 0]
    ELSE IF key = "GLUT_KEY_DOWN" /\ direction[2] < 0
    THEN [direction EXCEPT ![2] = 0]
    ELSE direction

\* End of the two press callbacks.
SpeedAfterPress(direction, speed) ==
    IF ~geometry_is_zero_vector(direction) THEN SUBMARINE_SPEED ELSE speed

\* End of the two release callbacks.
SpeedAfterRelease(direction, speed) ==
    IF geometry_is_zero_vector(direction) THEN 0 ELSE speed

\* Everything but the input state.
simulation_vars ==
    <<array_boids_current, array_boids_previous, i, tick, frame_start,
      updated, mode, sorted, neighbors, subject, oracle_vars, rerun_vars,
      host_vars>>

\* glutMainLoop hands an input event to its callback between two other
\* callbacks.
InputDispatched == pc = "glutMainLoop"

callback_keyboard ==
    /\ InputDispatched
    /\ \E key \in Keys :
          /\ submarine_direction' = KeyboardDirection(key, submarine_direction)
          /\ submarine_speed' = SpeedAfterPress(
                                    KeyboardDirection(key, submarine_direction),
                                    submarine_speed)
          /\ wire_frame_on' = IF key = "u" THEN ~wire_frame_on
                                           ELSE wire_frame_on
          /\ full_screen_on' = IF key = "f" THEN ~full_screen_on
                                            ELSE full_screen_on
          /\ fog_on' = IF key = "b" THEN ~fog_on ELSE fog_on
          /\ pc' = IF key = "q" THEN "glutExit" ELSE pc
          /\ last_event' = <<"callback_keyboard", key>>
    /\ UNCHANGED camera_vars
    /\ UNCHANGED <<array_boids_current, array_boids_previous, i, tick,
                   frame_start, updated, mode, sorted, neighbors, subject>>
    /\ UNCHANGED <<oracle_vars, rerun_vars, host_vars>>

callback_keyboard_up ==
    /\ InputDispatched
    /\ \E key \in Keys :
          /\ submarine_direction' = KeyboardUpDirection(key, submarine_direction)
          /\ submarine_speed' = SpeedAfterRelease(
                                    KeyboardUpDirection(key, submarine_direction),
                                    submarine_speed)
          /\ last_event' = <<"callback_keyboard_up", key>>
    /\ UNCHANGED <<toggle_vars, fog_on, camera_vars>>
    /\ UNCHANGED simulation_vars
    /\ UNCHANGED pc

callback_special ==
    /\ InputDispatched
    /\ \E key \in SpecialKeys :
          /\ submarine_direction' = SpecialDirection(key, submarine_direction)
          /\ submarine_speed' = SpeedAfterPress(
                                    SpecialDirection(key, submarine_direction),
                                    submarine_speed)
          /\ last_event' = <<"callback_special", key>>
    /\ UNCHANGED <<toggle_vars, fog_on, camera_vars>>
    /\ UNCHANGED simulation_vars
    /\ UNCHANGED pc

callback_special_up ==
    /\ InputDispatched
    /\ \E key \in SpecialKeys :
          /\ submarine_direction' = SpecialUpDirection(key, submarine_direction)
          /\ submarine_speed' = SpeedAfterRelease(
                                    SpecialUpDirection(key, submarine_direction),
                                    submarine_speed)
          /\ last_event' = <<"callback_special_up", key>>
    /\ UNCHANGED <<toggle_vars, fog_on, camera_vars>>
    /\ UNCHANGED simulation_vars
    /\ UNCHANGED pc

NextKeys ==
    \/ boids_initialize_rising
    \/ callback_keyboard
    \/ callback_keyboard_up
    \/ callback_special
    \/ callback_special_up

SpecKeys == Init /\ [][NextKeys]_vars

\* ------------------------------------------------ the mouse callback
\* Pointer positions inside the window.
MouseX == {0, 4, DEFAULT_WINDOW_WIDTH \div 2, DEFAULT_WINDOW_WIDTH - 1}
MouseY == {0, 3, 60, DEFAULT_WINDOW_HEIGHT \div 2, DEFAULT_WINDOW_HEIGHT - 1}

\* PI / 2 - 0.01f
PHI_LIMIT == RoundDiv(PI, 2) - 10

\* The if / else if that follows the update of phi.
\* Variant: the else if is missing.
ClampPhiAbove(phi) == IF phi > PHI_LIMIT THEN PHI_LIMIT ELSE phi
ClampPhi(phi) ==
    IF phi > PHI_LIMIT THEN PHI_LIMIT
    ELSE IF phi < 0 - PHI_LIMIT THEN 0 - PHI_LIMIT
    ELSE phi

callback_passive_motion ==
    /\ InputDispatched
    /\ \E x \in MouseX, y \in MouseY :
          /\ IF mouse_x = 0 - 1 \/ mouse_y = 0 - 1
             THEN UNCHANGED <<camera_theta, camera_phi>>
             ELSE LET mouse_delta_x == x - mouse_x
                      mouse_delta_y == y - mouse_y
                  IN  /\ camera_theta' =
                             camera_theta
                                 + mouse_delta_x
                                       * DEFAULT_WINDOW_MOUSE_SENSITIVITY
                      /\ camera_phi' =
                             ClampPhi(camera_phi
                                          - mouse_delta_y
                                                * DEFAULT_WINDOW_MOUSE_SENSITIVITY)
          /\ mouse_x' = x
          /\ mouse_y' = y
          /\ last_event' = <<"callback_passive_motion", x, y>>
    /\ UNCHANGED <<submarine_vars, toggle_vars, fog_on>>
    /\ UNCHANGED simulation_vars
    /\ UNCHANGED pc

NextMouse ==
    \/ boids_initialize_rising
    \/ callback_passive_motion

SpecMouse == Init /\ [][NextMouse]_vars

\* ================================================================ properties

\* Boids that may stand in slot j of array_boids_current instead of the one
\* that does.
ForeignBoids(j) ==
    {ZeroBoid, array_boids_previous[j],
     array_boids_current[(j + 1) % BOID_COUNT]}

\* C1: while the pass is at slot i, what the update of slot i can produce is
\* the same whatever the other slots of array_boids_current hold: it is a
\* function of array_boids_current[i] and array_boids_previous alone.
C1_OwnSlotAndPreviousOnly ==
    (pc = "update_boids_current") =>
        LET outcomes == UpdateOutcomes(array_boids_current,
                                       array_boids_previous, mode[i], i)
        IN  \A j \in Slots \ {i} : \A b \in ForeignBoids(j) :
                UpdateOutcomes([array_boids_current EXCEPT ![j] = b],
                               array_boids_previous, mode[i], i)
                    = outcomes

\* A boid has flocked around a neighbour whose slot was already rewritten in
\* this frame.
C1_Witness ==
    /\ pc = "boid_behavior_handle_neighbors"
    /\ tick >= 2
    /\ neighbors[0].index < i
    /\ array_boids_current[neighbors[0].index]
           # array_boids_previous[neighbors[0].index]

\* C2: update_boids_previous leaves in every slot of array_boids_previous the
\* value the same slot of array_boids_current had, and does not change
\* array_boids_current.
C2_PublishIsVerbatimCopy ==
    [][ (pc = "update_boids_previous") =>
            /\ \A s \in Slots : \A c \in Axes :
                  /\ array_boids_previous'[s].position[c]
                        = array_boids_current[s].position[c]
                  /\ array_boids_previous'[s].direction[c]
                        = array_boids_current[s].direction[c]
            /\ array_boids_current' = array_boids_current ]_vars

\* A frame that moved every boid has been published.
C2_Witness ==
    /\ pc = "glutMainLoop"
    /\ tick >= 1
    /\ \A s \in Slots :
          /\ array_boids_current[s] # frame_start[s]
          /\ array_boids_previous[s] # ZeroBoid

\* C3: whenever a per-agent update is about to run, array_boids_previous
\* holds what array_boids_current held when the tick began.
C3_PreviousIsFrameStart ==
    (pc = "update_boids_current") => array_boids_previous = frame_start

\* Squared length of a finite vector, in units of 1/MICRO.
SquaredLength(v) == v[1] * v[1] + v[2] * v[2] + v[3] * v[3]

\* Length 1 up to the resolution of the representation (three steps of
\* 1/ONE on the squared length).
IsUnit(v) ==
    /\ ~VecHasNaN(v)
    /\ Abs(SquaredLength(v) - MICRO) <= 3 * ONE

\* C4: after every completed tick each direction in array_boids_current has
\* length 1.
C4_DirectionsAreUnit ==
    (pc = "glutMainLoop" /\ tick >= 1) =>
        \A s \in Slots : IsUnit(array_boids_current[s].direction)

\* C5: the neighbour search of a flocking boid yields K records, skips the
\* subject at sorted position 0 and returns none with the subject's index.
C5_SubjectExcluded ==
    (pc = "boid_behavior_handle_neighbors") =>
        /\ DOMAIN neighbors = NeighborSlots
        /\ sorted[0].index = subject
        /\ \A k \in NeighborSlots : neighbors[k].index # subject

\* The results of a whole pass made in ascending slot order.
RECURSIVE InOrderPass(_, _, _, _)
InOrderPass(cur, prev, modes, k) ==
    IF k >= BOID_COUNT THEN {cur}
    ELSE UNION { InOrderPass([cur EXCEPT ![k] = b], prev, modes, k + 1) :
                    b \in UpdateOutcomes(cur, prev, modes[k], k) }

\* C6: a pass that processed the slots in any order ends with a buffer that
\* the pass in ascending slot order produces from the same frame start.
C6_AnyOrderSameResult ==
    (pc = "update_boids_previous") =>
        array_boids_current
            \in InOrderPass(frame_start, array_boids_previous,
                            mode, 0)

\* A pass over a published frame has ended with a slot other than the last.
C6_Witness ==
    /\ pc = "update_boids_previous"
    /\ tick >= 2
    /\ subject # BOID_COUNT - 1
    /\ array_boids_current # frame_start

\* Position p advanced once by direction d times BOID_SPEED.
Advanced(p, d) ==
    VecAdd(p, Vec(LAMBDA c : IF IsNaN(d[c]) THEN NaN
                             ELSE RoundDiv(d[c] * BOID_SPEED, ONE)))

\* C7: the iteration for slot i takes the environment branch exactly when the
\* trigger holds of the boid as it stands, whatever branch it took before,
\* and the flock branch otherwise; the new direction is the result of that
\* branch alone (on the flock branch, of the three steers on the neighbours
\* found), the position advances once by the new direction times
\* BOID_SPEED when the iteration ends, and no other slot changes.
C7_OneBranchThenIntegrate ==
    [][ LET before == array_boids_current[i]
            after  == array_boids_current'[i]
            env    == boid_behavior_environment_trigger(before)
        IN  /\ (pc = "update_boids_current" /\ env) =>
                  /\ mode'[i] = "environment"
                  /\ after.direction
                        = boid_behavior_handle_environment(before).direction
                  /\ after.position
                        = Advanced(before.position, after.direction)
                  /\ pc' # "boid_behavior_handle_neighbors"
                  /\ i' = i + 1
            /\ (pc = "update_boids_current" /\ ~env) =>
                  /\ mode'[i] = "flock"
                  /\ after = before
                  /\ pc' = "boid_behavior_handle_neighbors"
                  /\ i' = i
            /\ (pc = "boid_behavior_handle_neighbors") =>
                  /\ mode'[i] = "flock"
                  /\ after.direction
                        = FlockWith(before, neighbors, array_boids_current,
                                    array_boids_previous).direction
                  /\ after.position
                        = Advanced(before.position, after.direction)
                  /\ i' = i + 1
            /\ (pc \in {"update_boids_current",
                        "boid_behavior_handle_neighbors"}) =>
                  \A s \in Slots \ {i} :
                      array_boids_current'[s] = array_boids_current[s] ]_vars

\* In one frame a boid that flocked in the frame before has taken the
\* environment branch while another one flocked.
C7_Witness ==
    /\ tick >= 2
    /\ \E s, t \in updated :
          /\ mode[s] = "environment"
          /\ mode[t] = "flock"
          /\ array_boids_current[s].position # frame_start[s].position

\* The least element of a finite set of numbers.
SetMin(S) == CHOOSE m \in S : \A x \in S : m <= x

\* The three boundary distances of a finite position.
BoundaryDistances(p) ==
    { ENVIRONMENT_RADIUS_XZ - sqrtf(p[1] * p[1] + p[3] * p[3]),
      p[2] - ENVIRONMENT_FLOOR_Y,
      ENVIRONMENT_HEIGHT - p[2] }

\* C8: the trigger holds exactly when the least of the three boundary
\* distances is strictly below BOID_TRIGGER_ENVIRONMENT; with floor and
\* ceiling far, 0.01 inside the trigger distance of the wall gives the
\* environment branch and 0.01 outside of it gives the flock branch.
C8_TriggerIffBelowThreshold ==
    (pc = "oracle_done") =>
        /\ probe_trigger
              <=> SetMin(BoundaryDistances(probe.position))
                      < BOID_TRIGGER_ENVIRONMENT
        /\ probe.position
              = <<ENVIRONMENT_RADIUS_XZ - BOID_TRIGGER_ENVIRONMENT - 10,
                  4 * ONE, 0>>
              => ~probe_trigger
        /\ probe.position
              = <<ENVIRONMENT_RADIUS_XZ - BOID_TRIGGER_ENVIRONMENT + 10,
                  4 * ONE, 0>>
              => probe_trigger

\* The oracle has answered for a boid exactly at the trigger distance of the
\* wall, floor and ceiling being farther.
C8_Witness ==
    /\ pc = "oracle_done"
    /\ probe.position = <<8 * ONE, 4 * ONE, 0>>
    /\ probe_min = BOID_TRIGGER_ENVIRONMENT
    /\ ~probe_trigger

CentreBoid == [position |-> ZeroVector, direction |-> <<0, 0, ONE>>]

\* C9 as stated: for the boid at the centre heading (0,0,1) the minimum
\* boundary distance is the wall radius and the trigger is false.
C9_CentreSeesOnlyWall ==
    (pc = "oracle_done" /\ probe = CentreBoid) =>
        /\ probe_min = ENVIRONMENT_RADIUS_XZ
        /\ (ENVIRONMENT_RADIUS_XZ > BOID_TRIGGER_ENVIRONMENT => ~probe_trigger)

\* C9 amended: for the boid at the centre heading (0,0,1) the minimum
\* boundary distance is the distance to the floor, 0 - ENVIRONMENT_FLOOR_Y,
\* which is below both the wall radius and the trigger distance, so the
\* trigger is true.
C9_CentreSeesFloor ==
    (pc = "oracle_done" /\ probe = CentreBoid) =>
        /\ probe_min = 0 - ENVIRONMENT_FLOOR_Y
        /\ probe_min < ENVIRONMENT_RADIUS_XZ
        /\ probe_min < BOID_TRIGGER_ENVIRONMENT
        /\ probe_trigger

\* The oracle has answered for the boid at the centre.
C9_Witness ==
    /\ pc = "oracle_done"
    /\ probe = CentreBoid
    /\ probe_min < ENVIRONMENT_RADIUS_XZ

\* C10: the sorted entries are in ascending order of distance and, of two
\* entries at the same distance, the one with the lower index comes first.
C10_TiesByIndex ==
    (pc = "boid_behavior_handle_neighbors") =>
        \A a, b \in 0 .. BOID_NEIGHBORHOOD_SIZE :
            a < b =>
                \/ FLess(sorted[a].distance, sorted[b].distance)
                \/ /\ sorted[a].distance = sorted[b].distance
                   /\ sorted[a].index < sorted[b].index

\* C11: a vector of magnitude below epsilon comes out of
\* geometry_normalize_vector unchanged.  Straight after boids_initialize,
\* whose last step per boid is that call, every direction is then either of
\* length 1 or the zero vector that was drawn, and none is non-finite.
C11_SmallVectorLeftUnchanged ==
    (pc = "glutMainLoop" /\ tick = 0) =>
        \A s \in Slots :
            \/ IsUnit(array_boids_current[s].direction)
            \/ array_boids_current[s].direction = ZeroVector

C13_EachSlotOnceThenPublish ==
    [][ /\ (tick' # tick) =>
              /\ tick' = tick + 1
              /\ i' = 0
              /\ updated' = {}
              /\ publishes = tick
        /\ (i' = i + 1) =>
              /\ pc \in {"update_boids_current",
                         "boid_behavior_handle_neighbors"}
              /\ updated = 0 .. (i - 1)
              /\ updated' = 0 .. i
              /\ \A s \in Slots \ {i} :
                    array_boids_current'[s] = array_boids_current[s]
              /\ array_boids_previous' = array_boids_previous
              /\ publishes' = publishes
        /\ (pc' = "update_boids_previous") =>
              /\ updated' = Slots
              /\ i' = BOID_COUNT
              /\ publishes' = tick' - 1
        /\ (publishes' # publishes) =>
              /\ pc = "update_boids_previous"
              /\ updated = Slots
              /\ publishes' = publishes + 1
              /\ array_boids_current' = array_boids_current
        /\ (pc' = "glutMainLoop") => publishes' = tick' ]_vars

\* The last tick has ended: every slot was processed and moved, and every
\* tick was published.
C13_Witness ==
    /\ pc = "glutMainLoop"
    /\ tick = MaxTicks
    /\ publishes = MaxTicks
    /\ updated = Slots
    /\ \A s \in Slots : array_boids_current[s] # frame_start[s]

\* C14: every step in which draw_boids reads array_boids_current is taken
\* between callbacks, with no pass begun and not published; what it reads is
\* the whole buffer as the last completed tick left it (from the first tick
\* on, the frame that update_boids_previous copied), and the step does not
\* change array_boids_current.
C14_RendererReadsBetweenFrames ==
    [][ (drawn' # drawn \/ (redisplay /\ ~redisplay')) =>
            /\ pc = "glutMainLoop"
            /\ pc' = "glutMainLoop"
            /\ updated \in {{}, Slots}
            /\ publishes = tick
            /\ drawn' = array_boids_current
            /\ (tick >= 1) => drawn' = array_boids_previous
            /\ array_boids_current' = array_boids_current
            /\ array_boids_previous' = array_boids_previous ]_vars

\* draw_boids has drawn the frame of a tick that moved every boid.
C14_Witness ==
    /\ pc = "glutMainLoop"
    /\ ~redisplay
    /\ tick >= 1
    /\ drawn = array_boids_current
    /\ \A s \in Slots : drawn[s] # frame_start[s]

\* C15: boids_initialize is called once, from main before any callback, and
\* never again; a tick starts only after that call has returned.
C15_InitializeOnceBeforeTicks ==
    [][ /\ (initialize_calls' # initialize_calls) =>
              /\ pc = "main"
              /\ initialize_calls = 0
              /\ initialize_calls' = 1
              /\ tick = 0
              /\ publishes = 0
        /\ (tick' # tick) =>
              /\ initialize_calls = 1
              /\ pc = "glutMainLoop"
        /\ (pc' # "main") => initialize_calls' = 1 ]_vars

\* The last tick has run on a flock that boids_initialize filled.
C15_Witness ==
    /\ tick = MaxTicks
    /\ pc = "glutMainLoop"
    /\ initialize_calls = 1
    /\ \A s \in Slots : array_boids_previous[s] # ZeroBoid

Dot(a, b) == a[1] * b[1] + a[2] * b[2] + a[3] * b[3]

\* Slot i and slot j hold the two agents of the separation scenario: both
\* finite and flocking, 0.5 apart with the same direction, array_boids_previous
\* holding them as they are, and every other boid beyond BOID_TRIGGER_SEPARATE.
SeparationScenario(j) ==
    LET a == array_boids_current[i]
        b == array_boids_previous[j]
    IN  /\ j # i
        /\ array_boids_previous[i] = a
        /\ FiniteBoid(a)
        /\ ~boid_behavior_environment_trigger(a)
        /\ b.direction = a.direction
        /\ boid_physics_distance_of_boids(a, b) = ONE \div 2
        /\ \A s \in Slots \ {i, j} :
              FGreater(boid_physics_distance_of_boids(
                           a, array_boids_previous[s]),
                       BOID_TRIGGER_SEPARATE)

\* C16: an agent whose nearest neighbour is 0.5 away, below
\* BOID_TRIGGER_SEPARATE, and has the same direction ends its update with a
\* direction that has turned away from that neighbour: the change of direction
\* has a positive component along the unit vector from the neighbour to the
\* agent.
C16_CloseAgentsTurnAway ==
    (pc = "rerun_done") =>
        \A j \in Slots :
            SeparationScenario(j) =>
                /\ ~VecHasNaN(first_run.direction)
                /\ Dot(VecSub(first_run.direction,
                              array_boids_current[i].direction),
                       VecSub(array_boids_current[i].position,
                              array_boids_previous[j].position)) > 0

\* C17: boid_physics_distance_of_boids gives the same value with its two
\* arguments exchanged: for the boid the pass has reached and every boid of
\* either buffer, and for the distances that the neighbour search recorded
\* for the subject.
C17_DistanceSymmetric ==
    /\ \A s \in Slots \cap {i} : \A t \in Slots :
          /\ boid_physics_distance_of_boids(array_boids_current[s],
                                            array_boids_previous[t])
                = boid_physics_distance_of_boids(array_boids_previous[t],
                                                 array_boids_current[s])
          /\ boid_physics_distance_of_boids(array_boids_current[s],
                                            array_boids_current[t])
                = boid_physics_distance_of_boids(array_boids_current[t],
                                                 array_boids_current[s])
    /\ (pc = "boid_behavior_handle_neighbors") =>
          \A k \in 0 .. BOID_NEIGHBORHOOD_SIZE :
              sorted[k].distance
                  = boid_physics_distance_of_boids(
                        array_boids_previous[sorted[k].index],
                        array_boids_current[i])

\* The search has measured a subject against a boid that differs from it on
\* the x axis and on the z axis.
C17_Witness ==
    /\ pc = "boid_behavior_handle_neighbors"
    /\ \E k \in 0 .. BOID_NEIGHBORHOOD_SIZE :
          LET other == array_boids_previous[sorted[k].index]
              self  == array_boids_current[i]
          IN  /\ FiniteBoid(other)
              /\ FiniteBoid(self)
              /\ other.position[3] # self.position[3]
              /\ other.position[1] # self.position[1]
              /\ sorted[k].distance > 0

\* C18: no call of geometry_normalize_vector, in boids_initialize or in any
\* behaviour of any tick, has been given a vector of magnitude 0.
C18_NormalizeNeverGetsZero == ~normalized_zero

\* The finite distances whose squares the flock branch is about to divide by:
\* from the subject to each of its neighbours as array_boids_previous holds
\* them.
NeighborDistances ==
    { d \in { boid_physics_distance_of_boids(
                  array_boids_current[i],
                  CohesionBuffer(array_boids_current,
                                 array_boids_previous)[neighbors[k].index]) :
              k \in NeighborSlots } : ~IsNaN(d) }

\* C19: every divisor of an inverse-square weight is above zero: that of the
\* environment repulsion for each boundary distance of a boid about to take
\* the environment branch, and those of separation and of cohesion for the
\* distance to each neighbour of a boid about to flock, a distance of exactly
\* 0 included.
C19_NoDivisionByZero ==
    /\ (pc = "update_boids_current"
           /\ FiniteBoid(array_boids_current[i])
           /\ boid_behavior_environment_trigger(array_boids_current[i])) =>
          \A d \in BoundaryDistances(array_boids_current[i].position) :
              SquarePlusEpsilon(d) > 0
    /\ (pc = "boid_behavior_handle_neighbors") =>
          \A d \in NeighborDistances :
              /\ SquarePlusEpsilon(d) > 0
              /\ cohesion_weight_divisor(d) > 0

\* C20: array_boids_previous changes in one kind of step only, that of
\* update_boids_previous at the end of a tick, which gives every slot the
\* value of the same slot of array_boids_current at once; the steps of the
\* per-agent pass (trigger test, neighbour search, steering, integration),
\* of boids_initialize and of the renderer leave every slot of it as it was.
C20_PreviousWrittenByPublishOnly ==
    [][ /\ (array_boids_previous' # array_boids_previous) =>
              /\ pc = "update_boids_previous"
              /\ updated = Slots
              /\ array_boids_previous' = array_boids_current
        /\ (pc \in {"main", "glutMainLoop", "update_boids_current",
                    "boid_behavior_handle_neighbors"}) =>
              \A s \in Slots :
                  array_boids_previous'[s] = array_boids_previous[s]
        /\ (pc = "update_boids_previous") =>
              \A s \in Slots :
                  array_boids_previous'[s] = array_boids_current[s] ]_vars

\* In the second tick a boid has been steered and moved while
\* array_boids_previous still holds the frame of the first tick.
C20_Witness ==
    /\ tick >= 2
    /\ pc = "update_boids_current"
    /\ i >= 1
    /\ array_boids_current[0] # array_boids_previous[0]
    /\ array_boids_previous = frame_start
    /\ \A s \in Slots : array_boids_previous[s] # ZeroBoid

\* The headings of a flocking subject after alignment, after separation and
\* after cohesion, taken in that order on one neighbour array.
HeadingsInOrder(subject_boid, nbrs, prev) ==
    LET aligned   == handle_neighbors_align(subject_boid, nbrs, prev)
        separated == handle_neighbors_separate(aligned, nbrs[0], prev)
        cohered   == handle_neighbors_cohere(separated, nbrs, prev)
    IN  <<aligned, separated, cohered>>

ReturnedSlots == { neighbors[k].index : k \in NeighborSlots }

\* C22: the K records that the neighbour search returns are in non-decreasing
\* order of distance, each holds the distance from the subject to the boid of
\* array_boids_previous that it names, they name K different boids, none of
\* them the subject, and no boid that was not returned, the subject aside, is
\* strictly closer to the subject than one that was.
C22_KNearestOthers ==
    (pc = "boid_behavior_handle_neighbors") =>
        /\ \A a, b \in NeighborSlots :
              a < b => ~FGreater(neighbors[a].distance, neighbors[b].distance)
        /\ \A k \in NeighborSlots :
              /\ neighbors[k].distance
                    = boid_physics_distance_of_boids(
                          array_boids_current[i],
                          array_boids_previous[neighbors[k].index])
              /\ neighbors[k].index # i
        /\ Cardinality(ReturnedSlots) = BOID_NEIGHBORHOOD_SIZE
        /\ \A s \in Slots \ (ReturnedSlots \cup {i}) : \A k \in NeighborSlots :
              ~FLess(boid_physics_distance_of_boids(
                         array_boids_current[i], array_boids_previous[s]),
                     neighbors[k].distance)

Sign(x) == IF x < 0 THEN 0 - 1 ELSE IF x > 0 THEN 1 ELSE 0

\* C23: for a boid in environment mode, each of wall, floor and ceiling adds
\* a term to the target exactly when its own distance is strictly below
\* BOID_TRIGGER_ENVIRONMENT: the wall a horizontal term whose x and z have the
\* signs opposite to those of the position, the floor a term along +Y, the
\* ceiling a term along -Y; a boundary at or beyond the trigger distance adds
\* the zero vector; and the target is the normalized sum of the three terms
\* minus the boid's direction.
C23_OnlyNearBoundariesRepel ==
    (pc = "oracle_done" /\ probe_trigger) =>
        LET p       == probe.position
            wall    == ENVIRONMENT_RADIUS_XZ - sqrtf(p[1] * p[1] + p[3] * p[3])
            floor   == p[2] - ENVIRONMENT_FLOOR_Y
            ceiling == ENVIRONMENT_HEIGHT - p[2]
        IN  /\ IF wall < BOID_TRIGGER_ENVIRONMENT
               THEN /\ Sign(probe_repulsion.wall[1]) = 0 - Sign(p[1])
                    /\ probe_repulsion.wall[2] = 0
                    /\ Sign(probe_repulsion.wall[3]) = 0 - Sign(p[3])
               ELSE probe_repulsion.wall = ZeroVector
            /\ IF floor < BOID_TRIGGER_ENVIRONMENT
               THEN /\ probe_repulsion.floor[1] = 0
                    /\ probe_repulsion.floor[2] > 0
                    /\ probe_repulsion.floor[3] = 0
               ELSE probe_repulsion.floor = ZeroVector
            /\ IF ceiling < BOID_TRIGGER_ENVIRONMENT
               THEN /\ probe_repulsion.ceiling[1] = 0
                    /\ probe_repulsion.ceiling[2] < 0
                    /\ probe_repulsion.ceiling[3] = 0
               ELSE probe_repulsion.ceiling = ZeroVector
            /\ probe_target
                  = geometry_normalize_vector(
                        VecSub(VecAdd(VecAdd(probe_repulsion.wall,
                                             probe_repulsion.floor),
                                      probe_repulsion.ceiling),
                               probe.direction))

\* The target has been computed for a boid inside the trigger distance of the
\* wall and exactly at the trigger distance of the floor: the wall alone has
\* added a term.
C23_Witness ==
    /\ pc = "oracle_done"
    /\ probe_trigger
    /\ probe.position = <<8 * ONE + 10, ONE, 0>>
    /\ probe_repulsion.wall[1] < 0
    /\ probe_repulsion.floor = ZeroVector
    /\ probe_repulsion.ceiling = ZeroVector
    /\ probe_target # ZeroVector
    /\ ~VecHasNaN(probe_target)

\* A step of one position has length BOID_SPEED up to the resolution of the
\* representation (half a step of 1/ONE on each axis).
HasLengthSpeed(from, to) ==
    /\ ~VecHasNaN(from)
    /\ ~VecHasNaN(to)
    /\ Abs(SquaredLength(VecSub(to, from)) - BOID_SPEED * BOID_SPEED)
           <= 2 * BOID_SPEED

\* C24: in the iteration for slot i no steer moves the boid, the position
\* update leaves the direction it is given, and the iteration ends with the
\* position advanced once by the new direction times BOID_SPEED, a step of
\* length BOID_SPEED.
C24_SteerHeadingIntegratePosition ==
    [][ LET before == array_boids_current[i]
            after  == array_boids_current'[i]
            steered ==
                IF pc = "update_boids_current"
                THEN boid_behavior_handle_environment(before)
                ELSE HeadingsInOrder(before, neighbors,
                                     array_boids_previous)[3]
        IN  (pc \in {"update_boids_current", "boid_behavior_handle_neighbors"}
                /\ i' = i + 1) =>
                /\ steered.position = before.position
                /\ boid_physics_update_position(steered).direction
                      = steered.direction
                /\ after.direction = steered.direction
                /\ after.position = Advanced(before.position, after.direction)
                /\ HasLengthSpeed(before.position, after.position) ]_vars

\* C25: once boids_initialize has run, every boid is inside the enclosure
\* after any number of ticks: its position is finite and its distances to the
\* wall, to the floor and to the ceiling are all at least 0.
C25_BoidsStayInside ==
    (pc # "main") =>
        \A s \in Slots :
            /\ ~VecHasNaN(array_boids_current[s].position)
            /\ \A d \in BoundaryDistances(array_boids_current[s].position) :
                  d >= 0

\* C26: every boid that boids_initialize makes has x and z in [-4, 4] and a
\* whole y in 1 .. 8, so it is more than 4 from the wall and at least
\* BOID_TRIGGER_ENVIRONMENT from the floor and from the ceiling; in the
\* first tick the trigger is false for the boid of every iteration and every
\* boid takes the flock branch.
C26_InitialBoidsFlockFirst ==
    /\ (pc # "main" /\ tick = 0) =>
          \A s \in Slots :
              LET p == array_boids_current[s].position
              IN  /\ p[1] >= 0 - 4 * ONE /\ p[1] <= 4 * ONE
                  /\ p[3] >= 0 - 4 * ONE /\ p[3] <= 4 * ONE
                  /\ p[2] \in { y * ONE : y \in 1 .. 8 }
                  /\ distance_to_wall(array_boids_current[s]) > 4 * ONE
                  /\ distance_to_floor(array_boids_current[s])
                        >= BOID_TRIGGER_ENVIRONMENT
                  /\ distance_to_ceiling(array_boids_current[s])
                        >= BOID_TRIGGER_ENVIRONMENT
                  /\ boid_physics_min_distance_to_environment(
                         array_boids_current[s]) >= BOID_TRIGGER_ENVIRONMENT
    /\ (tick = 1) =>
          /\ \A s \in updated : mode[s] = "flock"
          /\ (pc = "update_boids_current") =>
                ~boid_behavior_environment_trigger(array_boids_current[i])
          /\ (pc = "boid_behavior_handle_neighbors") => mode[i] = "flock"

\* The pass of the first tick is over: every boid flocked, among them one
\* that started exactly BOID_TRIGGER_ENVIRONMENT above the floor, one exactly
\* as far below the ceiling, and one at x = 4.
C26_Witness ==
    /\ tick = 1
    /\ pc = "update_boids_previous"
    /\ updated = Slots
    /\ \A s \in Slots : mode[s] = "flock"
    /\ \E s, t, u \in Slots :
          /\ distance_to_floor(frame_start[s]) = BOID_TRIGGER_ENVIRONMENT
          /\ distance_to_ceiling(frame_start[t]) = BOID_TRIGGER_ENVIRONMENT
          /\ frame_start[u].position[1] = 4 * ONE

\* The pairs of buffers that differ from the two of the state in one boid
\* other than slot i of array_boids_current.
OtherWorlds ==
    { [current  |-> [array_boids_current EXCEPT ![j] = b],
       previous |-> array_boids_previous] :
          j \in Slots \ {i}, b \in {ZeroBoid, array_boids_previous[i]} }
    \cup
    { [current  |-> array_boids_current,
       previous |-> [array_boids_previous EXCEPT ![j] = b]] :
          j \in Slots, b \in {ZeroBoid, array_boids_current[i]} }

\* C27: the iteration of a boid for which the trigger holds leaves in its
\* slot the boid that the loop body gives for it in every pair of buffers
\* that differs in another boid, of array_boids_current or of
\* array_boids_previous: direction and position after the frame are a
\* function of the boid's own position and direction before it.
C27_EnvironmentModeReadsOwnBoidOnly ==
    [][ (pc = "update_boids_current"
            /\ boid_behavior_environment_trigger(array_boids_current[i])) =>
            /\ \A w \in OtherWorlds :
                  UpdateOutcomes(w.current, w.previous, mode[i], i)
                      = {array_boids_current'[i]}
            /\ array_boids_current'[i]
                  = boid_physics_update_position(
                        boid_behavior_handle_environment(
                            [position  |-> array_boids_current[i].position,
                             direction |-> array_boids_current[i].direction]))
      ]_vars

\* A boid has been steered in environment mode and moved, in a frame in which
\* array_boids_previous holds another boid within BOID_TRIGGER_SEPARATE of it.
C27_Witness ==
    /\ tick >= 2
    /\ \E s \in updated : \E t \in Slots \ {s} :
          /\ mode[s] = "environment"
          /\ FiniteBoid(array_boids_current[s])
          /\ array_boids_current[s].position # frame_start[s].position
          /\ FLess(boid_physics_distance_of_boids(frame_start[s],
                                                  array_boids_previous[t]),
                   BOID_TRIGGER_SEPARATE)

\* The positions of the sorted array that the copy loop of the search reads.
CopiedPositions == { k + 1 : k \in NeighborSlots }

\* C28: the neighbour search reads the sorted positions 1 .. K, which exist
\* in an array of BOID_COUNT entries because K + 1 <= BOID_COUNT, and every
\* record it returns names a slot 0 .. BOID_COUNT - 1, so that the boids which
\* alignment, separation (record 0) and cohesion read exist.
C28_NeighborIndicesInRange ==
    /\ BOID_NEIGHBORHOOD_SIZE + 1 <= BOID_COUNT
    /\ CopiedPositions \subseteq Slots
    /\ (pc = "boid_behavior_handle_neighbors") =>
          /\ CopiedPositions \subseteq DOMAIN sorted
          /\ DOMAIN neighbors = NeighborSlots
          /\ 0 \in DOMAIN neighbors
          /\ \A k \in NeighborSlots :
                /\ neighbors[k].index \in Slots
                /\ neighbors[k].index \in DOMAIN array_boids_previous
                /\ neighbors[k] = sorted[k + 1]

\* The search has returned the last slot of array_boids_previous for a finite
\* subject of a published frame.
C28_Witness ==
    /\ pc = "boid_behavior_handle_neighbors"
    /\ tick >= 2
    /\ FiniteBoid(array_boids_current[i])
    /\ i # BOID_COUNT - 1
    /\ neighbors[BOID_NEIGHBORHOOD_SIZE - 1].index = BOID_COUNT - 1
    /\ neighbors[BOID_NEIGHBORHOOD_SIZE - 1].distance > 0

\* The axis a movement key acts on (0: none) and the sign it gives to it.
KeyAxis(key) ==
    CASE key \in {"a", "d"} -> 1
      [] key \in {"GLUT_KEY_UP", "GLUT_KEY_DOWN"} -> 2
      [] key \in {"w", "s"} -> 3
      [] OTHER -> 0

KeySign(key) ==
    CASE key \in {"w", "a", "GLUT_KEY_UP"} -> 1
      [] key \in {"s", "d", "GLUT_KEY_DOWN"} -> 0 - 1
      [] OTHER -> 0

SpeedFollowsDirection ==
    /\ submarine_speed = SUBMARINE_SPEED
           <=> ~geometry_is_zero_vector(submarine_direction)
    /\ submarine_speed = 0 <=> geometry_is_zero_vector(submarine_direction)

ReleaseClearsOwnSignOnly ==
    last_event'[1] \in {"callback_keyboard_up", "callback_special_up"} =>
        \A c \in Axes :
            submarine_direction'[c] =
                IF /\ c = KeyAxis(last_event'[2])
                   /\ Sign(submarine_direction[c]) = KeySign(last_event'[2])
                THEN 0
                ELSE submarine_direction[c]

\* C29: after submarine initialization and any sequence of key press and key
\* release callbacks (w, a, s, d, the up and down arrows, any other key) the
\* submarine's speed is SUBMARINE_SPEED exactly when its direction is not the
\* zero vector and 0 exactly when it is; a release clears the key's axis only
\* if the direction on that axis has the key's sign, and changes no other
\* axis.
C29_SpeedFollowsDirection ==
    /\ []SpeedFollowsDirection
    /\ [][ReleaseClearsOwnSignOnly]_vars

\* w is released while the submarine moves backward, and it still does.
C29_Witness ==
    /\ last_event = <<"callback_keyboard_up", "w">>
    /\ submarine_direction[3] = 0 - ONE
    /\ submarine_speed = SUBMARINE_SPEED

PhiInRange ==
    last_event[1] = "callback_passive_motion" =>
        /\ camera_phi >= 0 - PHI_LIMIT
        /\ camera_phi <= PHI_LIMIT

FirstMotionOnlyRecords ==
    (/\ mouse_x = 0 - 1
     /\ mouse_y = 0 - 1
     /\ last_event'[1] = "callback_passive_motion") =>
        /\ camera_theta' = camera_theta
        /\ camera_phi' = camera_phi
        /\ mouse_x' = last_event'[2]
        /\ mouse_y' = last_event'[3]

\* C30: after every passive mouse motion callback the camera's vertical angle
\* phi lies within [-PI/2 + 0.01, PI/2 - 0.01], whatever the sequence of mouse
\* positions; the first motion event, with the stored mouse position still
\* -1, only records the position and changes neither theta nor phi.
C30_PhiClampedFirstMotionRecords ==
    /\ []PhiInRange
    /\ [][FirstMotionOnlyRecords]_vars

\* A move down the whole window has brought phi to its lower limit.
C30_Witness ==
    /\ last_event[1] = "callback_passive_motion"
    /\ camera_phi = 0 - PHI_LIMIT
    /\ mouse_y = DEFAULT_WINDOW_HEIGHT - 1
====
